---- MODULE Spec2Model ----
(***************************************************************************)
(* Map tile downloader (bin/mapcache_download.js): the tile range          *)
(* computation, the batch scheduler of fn_download_tiles_for_zoom, the     *)
(* retry loop of download_image and the progress counters, as a state      *)
(* machine of the single-threaded event loop.  One action is one           *)
(* synchronous stretch of code between two awaits.                         *)
(*                                                                         *)
(* Coordinates are integers in units of 1/10000 degree.  HTTP responses,   *)
(* image conversions and timers are the environment: every request may     *)
(* resolve or reject, every conversion may resolve or reject, every write  *)
(* to the output folder resolves.                                          *)
(***************************************************************************)
EXTENDS Integers, Sequences, FiniteSets, TLC

(***************************************************************************)
(* Bounds of the model.                                                    *)
(***************************************************************************)
MaxZoom == 1
MaxRetries == 4
MaxConcurrency == 2
MaxBatchRetries == 2

(***************************************************************************)
(* Program constants.                                                      *)
(***************************************************************************)
DEFAULT_PROVIDER == 0
DEFAULT_CONCURRENCY == 5
DEFAULT_RETRIES == 3
DEFAULT_ZOUT == 0
DEFAULT_FORCE == FALSE
MAX_ZOOM_ALLOWED == 22
BACKOFF_UNIT == 1000

\* An option that was not given on the command line (undefined in myArgs).
Undefined == -1

\* JavaScript's  v || d  on a number-or-undefined: undefined and 0 are falsy.
OrDefault(v, d) == IF v = Undefined \/ v = 0 THEN d ELSE v

Pow2(n) == IF n <= 0 THEN 1 ELSE 2 ^ n

(***************************************************************************)
(* Projection.  project + transform map a corner to a fraction of the      *)
(* world square; MercatorY22 is that fraction for the sampled latitudes,   *)
(* floor(2^22 * (0.5 - k*y)), as the double arithmetic of project and      *)
(* transform gives it (latitudes beyond +-85.0511287798 are clamped).      *)
(***************************************************************************)
MercatorY22(lat) ==
    CASE lat = -900000 -> 4194303
      [] lat = -100000 -> 2214256
      [] lat =  100000 -> 1980047
      [] lat =  407128 -> 1576977
      [] lat =  407228 -> 1576824
      [] lat =  450000 -> 1508796
      [] lat =  900000 -> 0

\* floor(transform(project(lat, lng), zoomScale(zoom)).x / 256), that is
\* floor(2^zoom * (lng + 180) / 360); from zoom 7 on the factor 2^7 of
\* 3600000 = 2^7 * 28125 is cancelled, which keeps the products small.
TileX(lng, zoom) ==
    LET l == lng + 1800000
    IN  IF zoom < 7
        THEN (Pow2(zoom) * l) \div 3600000
        ELSE Pow2(zoom - 7) * (l \div 28125)
             + (Pow2(zoom - 7) * (l % 28125)) \div 28125

\* floor(transform(project(lat, lng), zoomScale(zoom)).y / 256)
TileY(lat, zoom) == MercatorY22(lat) \div Pow2(22 - zoom)

Min2(a, b) == IF a > b THEN b ELSE a
Max2(a, b) == IF a > b THEN a ELSE b

\* Returns <<point1, point2>>, each a record [x, y].
fn_convertLowExclusive(lat1, lng1, lat2, lng2, zoom) ==
    LET lngA == Min2(lng1, lng2)
        lngB == Max2(lng1, lng2)
        latA == Min2(lat1, lat2)
        latB == Max2(lat1, lat2)
        p1x == TileX(lngA, zoom) + 1
        p1y == TileY(latA, zoom)
        p2x == TileX(lngB, zoom)
        p2y == TileY(latB, zoom)
    IN  << [x |-> p1x, y |-> Min2(p1y, p2y) + 1],
           [x |-> p2x, y |-> Max2(p1y, p2y)] >>
fn_convertNoYSort(lat1, lng1, lat2, lng2, zoom) ==
    LET lngA == Min2(lng1, lng2)
        lngB == Max2(lng1, lng2)
        latA == Min2(lat1, lat2)
        latB == Max2(lat1, lat2)
    IN  << [x |-> TileX(lngA, zoom), y |-> TileY(latA, zoom)],
           [x |-> TileX(lngB, zoom), y |-> TileY(latB, zoom)] >>
fn_convertNoLngSwap(lat1, lng1, lat2, lng2, zoom) ==
    LET latA == Min2(lat1, lat2)
        latB == Max2(lat1, lat2)
        p1y == TileY(latA, zoom)
        p2y == TileY(latB, zoom)
    IN  << [x |-> TileX(lng1, zoom), y |-> Min2(p1y, p2y)],
           [x |-> TileX(lng2, zoom), y |-> Max2(p1y, p2y)] >>
fn_convertFromLngLatToPoints(lat1, lng1, lat2, lng2, zoom) ==
    LET lngA == Min2(lng1, lng2)
        lngB == Max2(lng1, lng2)
        latA == Min2(lat1, lat2)
        latB == Max2(lat1, lat2)
        p1x == TileX(lngA, zoom)
        p1y == TileY(latA, zoom)
        p2x == TileX(lngB, zoom)
        p2y == TileY(latB, zoom)
    IN  << [x |-> p1x, y |-> Min2(p1y, p2y)],
           [x |-> p2x, y |-> Max2(p1y, p2y)] >>

(***************************************************************************)
(* Provider resolution.                                                    *)
(***************************************************************************)
ProviderUrl(provider, token, i, j, zoom) ==
    LET zs == ToString(zoom)
        is == ToString(i)
        js == ToString(j)
    IN  IF provider = 1
        THEN "https://api.mapbox.com/styles/v1/mapbox/satellite-v9/tiles/"
             \o zs \o "/" \o is \o "/" \o js \o "?access_token=" \o token
        ELSE IF provider = 2
        THEN "https://api.mapbox.com/v4/mapbox.terrain-rgb/"
             \o zs \o "/" \o is \o "/" \o js \o ".png?access_token=" \o token
        ELSE "https://tile.openstreetmap.org/"
             \o zs \o "/" \o is \o "/" \o js \o ".png"

TypePrefix(provider) ==
    IF provider = 1 THEN "sat" ELSE IF provider = 2 THEN "terrain" ELSE "osm"

getTileUrlNoZoomInName(provider, token, i, j, zoom) ==
    [url |-> ProviderUrl(provider, token, i, j, zoom),
     filename |-> TypePrefix(provider) \o "_" \o ToString(i) \o "_"
                  \o ToString(j) \o ".png",
     isMapboxSatellite |-> (provider = 1)]

getTileUrlConvertsMapbox(provider, token, i, j, zoom) ==
    [url |-> ProviderUrl(provider, token, i, j, zoom),
     filename |-> TypePrefix(provider) \o "_" \o ToString(i) \o "_"
                  \o ToString(j) \o "_" \o ToString(zoom) \o ".png",
     isMapboxSatellite |-> (provider # 0)]

getTileUrlAndFilename(provider, token, i, j, zoom) ==
    LET zs == ToString(zoom)
        is == ToString(i)
        js == ToString(j)
        typePrefix == IF provider = 1 THEN "sat"
                      ELSE IF provider = 2 THEN "terrain" ELSE "osm"
        url == IF provider = 1
               THEN "https://api.mapbox.com/styles/v1/mapbox/satellite-v9/tiles/"
                    \o zs \o "/" \o is \o "/" \o js \o "?access_token=" \o token
               ELSE IF provider = 2
               THEN "https://api.mapbox.com/v4/mapbox.terrain-rgb/"
                    \o zs \o "/" \o is \o "/" \o js \o ".png?access_token=" \o token
               ELSE "https://tile.openstreetmap.org/"
                    \o zs \o "/" \o is \o "/" \o js \o ".png"
    IN  [url |-> url,
         filename |-> typePrefix \o "_" \o is \o "_" \o js \o "_" \o zs \o ".png",
         isMapboxSatellite |-> (provider = 1)]

(***************************************************************************)
(* State.                                                                  *)
(*   myArgs           the parsed command line (global myArgs)              *)
(*   map_provider, TOKEN, totalTiles, downloadedTiles   the other globals  *)
(*   pc               where main stands                                    *)
(*   zoom             the zoom variable of main's loops                    *)
(*   tiles, batchStart, concurrency   locals of fn_download_tiles_for_zoom *)
(*   jobs             every tile job dispatched so far, in dispatch order  *)
(*   files            the output folder: filename -> content               *)
(*   httpCalls        the requests issued so far: url -> count             *)
(*   fnCalls          the calls of getTileUrlAndFilename and of            *)
(*                    fn_convertFromLngLatToPoints made on their own, with *)
(*                    their arguments and results (empty during a run)     *)
(***************************************************************************)
VARIABLES myArgs, map_provider, TOKEN, totalTiles, downloadedTiles,
          pc, zoom, tiles, batchStart, concurrency, jobs, files, httpCalls,
          fnCalls, variant, chains

vars == << myArgs, map_provider, TOKEN, totalTiles, downloadedTiles,
           pc, zoom, tiles, batchStart, concurrency, jobs, files, httpCalls,
           fnCalls, variant, chains >>

\* The state of the legacy variants, which the program of bin/ leaves alone.
legacy == << variant, chains >>

(***************************************************************************)
(* The command lines the model runs: what hlp_args.getArgs() returns.      *)
(* Numeric options are numbers, an option not given is Undefined.          *)
(*   RetryRuns    one tile per zoom level, every retries value (1 or 2    *)
(*                retries in the runs that go beyond zoom 1)              *)
(*   BatchRuns    four tiles at zoom 1, every concurrency value           *)
(*   DefaultRuns  six tiles at zoom 1 under the default concurrency        *)
(*   InvalidRuns  command lines fn_handle_arguments rejects                *)
(***************************************************************************)
Args(box, zo, zi, p, t, c, r, f) ==
    [lat1 |-> box[1], lng1 |-> box[2], lat2 |-> box[3], lng2 |-> box[4],
     zout |-> zo, zin |-> zi, provider |-> p, token |-> t,
     concurrency |-> c, retries |-> r, force |-> f]

OneTileBox == << 407128, -740060, 407228, -739960 >>
FourTileBox == << 100000, 100000, -100000, -100000 >>
WorldBox == << -900000, -1800000, 900000, 1800000 >>

ProviderArgs == { << Undefined, "" >>, << 1, "tk" >>, << 2, "tk" >> }

RetryRuns ==
    LET runs == { Args(OneTileBox, zo, zi, pt[1], pt[2], Undefined, r, f) :
                    zo \in {Undefined, 1}, zi \in 1 .. MaxZoom,
                    pt \in ProviderArgs,
                    r \in {Undefined} \cup (0 .. MaxRetries), f \in BOOLEAN }
    IN  { a \in runs : a.zin = 1 \/ a.retries \in {1, 2} }

BatchRuns ==
    { Args(FourTileBox, zo, 1, Undefined, "", c, r, f) :
        zo \in {Undefined, 1}, c \in 1 .. MaxConcurrency,
        r \in 1 .. MaxBatchRetries, f \in BOOLEAN }

DefaultRuns ==
    { Args(WorldBox, 1, 1, Undefined, "", Undefined, 1, f) : f \in BOOLEAN }

InvalidRuns ==
    { Args(OneTileBox, Undefined, 1, p, "", Undefined, Undefined, FALSE) :
        p \in {1, 2} }
    \cup
    { Args(OneTileBox, zo, zi, Undefined, "", Undefined, Undefined, FALSE) :
        zo \in {Undefined, 2, -2}, zi \in {0, 1, MAX_ZOOM_ALLOWED + 1} }

getArgs == RetryRuns \cup BatchRuns \cup DefaultRuns \cup InvalidRuns

\* The files the folder may hold before the run: tiles of an earlier run.
OldFiles(a) ==
    LET p == IF a.provider = Undefined THEN DEFAULT_PROVIDER ELSE a.provider
    IN  { getTileUrlAndFilename(p, a.token, 0, 0, z).filename : z \in 0 .. 1 }

Init ==
    /\ myArgs \in getArgs
    /\ map_provider = DEFAULT_PROVIDER
    /\ TOKEN = ""
    /\ totalTiles = 0
    /\ downloadedTiles = 0
    /\ pc = "main"
    /\ zoom = 0
    /\ tiles = << >>
    /\ batchStart = 0
    /\ concurrency = 0
    /\ jobs = << >>
    /\ \E old \in SUBSET OldFiles(myArgs) : files = [f \in old |-> "old"]
    /\ httpCalls = << >>
    /\ fnCalls = << >>
    /\ variant = "bin/mapcache_download"
    /\ chains = << >>

(***************************************************************************)
(* fn_handle_arguments: validation of the command line.  A missing or      *)
(* zero required number is "missing"; an error ends the process with       *)
(* exit code 1 before anything else happens.                               *)
(***************************************************************************)
Falsy(v) == v = Undefined \/ v = 0

ArgsErrorNoTokenCheck(a) ==
    LET zo == IF Falsy(a.zout) THEN DEFAULT_ZOUT ELSE a.zout
    IN  \/ \E v \in {a.lat1, a.lng1, a.lat2, a.lng2, a.zin} : Falsy(v)
        \/ \E v \in {a.lat1, a.lat2} : ~Falsy(v) /\ (v < -900000 \/ v > 900000)
        \/ \E v \in {a.lng1, a.lng2} : ~Falsy(v) /\ (v < -1800000 \/ v > 1800000)
        \/ zo > a.zin \/ zo < 0 \/ a.zin > MAX_ZOOM_ALLOWED
ArgsError(a) ==
    LET provider == IF Falsy(a.provider) THEN DEFAULT_PROVIDER ELSE a.provider
        zo == IF Falsy(a.zout) THEN DEFAULT_ZOUT ELSE a.zout
    IN  \/ \E v \in {a.lat1, a.lng1, a.lat2, a.lng2, a.zin} : Falsy(v)
        \/ \E v \in {a.lat1, a.lat2} : ~Falsy(v) /\ (v < -900000 \/ v > 900000)
        \/ \E v \in {a.lng1, a.lng2} : ~Falsy(v) /\ (v < -1800000 \/ v > 1800000)
        \/ (provider \in {1, 2} /\ a.token = "")
        \/ zo > a.zin \/ zo < 0 \/ a.zin > MAX_ZOOM_ALLOWED

fn_handle_arguments ==
    /\ pc = "main"
    /\ map_provider' = IF Falsy(myArgs.provider) THEN DEFAULT_PROVIDER
                       ELSE myArgs.provider
    /\ TOKEN' = IF map_provider' \in {1, 2} THEN myArgs.token ELSE TOKEN
    /\ myArgs' = [myArgs EXCEPT
                    !.zout = IF Falsy(myArgs.zout) THEN DEFAULT_ZOUT ELSE myArgs.zout,
                    !.force = IF myArgs.force = TRUE THEN TRUE ELSE DEFAULT_FORCE]
    /\ pc' = IF ArgsError(myArgs) THEN "exit1" ELSE "total"
    /\ UNCHANGED << legacy, fnCalls, totalTiles, downloadedTiles, zoom, tiles, batchStart,
                    concurrency, jobs, files, httpCalls >>

(***************************************************************************)
(* main, lines 305-311: the total over all zoom levels, for the progress.  *)
(***************************************************************************)
RangeCountPadded(z) ==
    LET r == fn_convertFromLngLatToPoints(myArgs.lat1, myArgs.lng1,
                                          myArgs.lat2, myArgs.lng2, z)
    IN  (r[2].x - r[1].x + 2) * (r[2].y - r[1].y + 2)
RangeCount(z) ==
    LET r == fn_convertFromLngLatToPoints(myArgs.lat1, myArgs.lng1,
                                          myArgs.lat2, myArgs.lng2, z)
    IN  (r[2].x - r[1].x + 1) * (r[2].y - r[1].y + 1)

RECURSIVE SumRangeCounts(_, _)
SumRangeCounts(z, zin) ==
    IF z > zin THEN 0 ELSE RangeCount(z) + SumRangeCounts(z + 1, zin)

CountTotalTiles ==
    /\ pc = "total"
    /\ totalTiles' = totalTiles + SumRangeCounts(myArgs.zout, myArgs.zin)
    /\ zoom' = myArgs.zout
    /\ pc' = "zoomloop"
    /\ UNCHANGED << legacy, fnCalls, myArgs, map_provider, TOKEN, downloadedTiles, tiles,
                    batchStart, concurrency, jobs, files, httpCalls >>

(***************************************************************************)
(* fn_download_tiles_for_zoom, lines 164-175: the job list of one zoom     *)
(* level, x outer and y inner.                                             *)
(***************************************************************************)
TileListRepeatsRow(point1, point2) ==
    LET w == point2.x - point1.x + 1
        h == point2.y - point1.y + 1
    IN  IF w <= 0 \/ h <= 0 THEN << >>
        ELSE [k \in 1 .. (w * h) |->
                [i |-> point1.x + ((k - 1) \div h),
                 j |-> point1.y]]
TileListExclusive(point1, point2) ==
    LET w == point2.x - point1.x
        h == point2.y - point1.y
    IN  IF w <= 0 \/ h <= 0 THEN << >>
        ELSE [k \in 1 .. (w * h) |->
                [i |-> point1.x + ((k - 1) \div h),
                 j |-> point1.y + ((k - 1) % h)]]
TileList(point1, point2) ==
    LET w == point2.x - point1.x + 1
        h == point2.y - point1.y + 1
    IN  IF w <= 0 \/ h <= 0 THEN << >>
        ELSE [k \in 1 .. (w * h) |->
                [i |-> point1.x + ((k - 1) \div h),
                 j |-> point1.y + ((k - 1) % h)]]

\* main's second loop: the next zoom level, or "Download complete!".
ZoomLoop ==
    /\ pc = "zoomloop"
    /\ IF zoom <= myArgs.zin
       THEN LET r == fn_convertFromLngLatToPoints(myArgs.lat1, myArgs.lng1,
                                                  myArgs.lat2, myArgs.lng2, zoom)
                list == TileList(r[1], r[2])
            IN  /\ tiles' = list
                /\ totalTiles' = totalTiles + Len(list)
                /\ concurrency' = OrDefault(myArgs.concurrency, DEFAULT_CONCURRENCY)
                /\ batchStart' = 0
                /\ pc' = "batchloop"
       ELSE /\ pc' = "complete"
            /\ UNCHANGED << tiles, totalTiles, concurrency, batchStart >>
    /\ UNCHANGED << legacy, fnCalls, myArgs, map_provider, TOKEN, downloadedTiles, zoom,
                    jobs, files, httpCalls >>

(***************************************************************************)
(* download_image, lines 109-133.  A job record is one call of the async   *)
(* callback of batch.map (lines 179-199) with the download_image call it   *)
(* makes; state names the promise the call is suspended on.  The fields    *)
(* existed, error, delays and convFailedAt record what happened to the     *)
(* job: whether its file was there when it was dispatched, the error last  *)
(* caught, the backoff delays it has waited, and the attempt whose         *)
(* conversion first failed.                                                *)
(***************************************************************************)
AddCall(calls, url) ==
    IF url \in DOMAIN calls
    THEN [calls EXCEPT ![url] = @ + 1]
    ELSE (url :> 1) @@ calls

\* Line 130: the delay before the next attempt.
BackoffExponential(attempt) == BACKOFF_UNIT * Pow2(attempt - 1)
BackoffDelay(attempt) == BACKOFF_UNIT * attempt

\* Line 109: the retries parameter's default.
RetriesParam(a) == OrDefault(a.retries, DEFAULT_RETRIES)

\* Line 110: the loop test, then the request of line 112.  When the test
\* fails the function returns normally and the job logs "Downloaded".
LoopHeadOffByOne(job, attempt) ==
    IF attempt < job.retries
    THEN [job EXCEPT !.attempt = attempt, !.state = "axios", !.wait = 0,
                     !.error = "none"]
    ELSE [job EXCEPT !.attempt = attempt, !.state = "done", !.wait = 0,
                     !.error = "none", !.outcome = "Success"]
LoopHead(job, attempt) ==
    IF attempt <= job.retries
    THEN [job EXCEPT !.attempt = attempt, !.state = "axios", !.wait = 0,
                     !.error = "none"]
    ELSE [job EXCEPT !.attempt = attempt, !.state = "done", !.wait = 0,
                     !.error = "none", !.outcome = "Success"]

\* Line 127: is this failed attempt the last one?
FinalAttempt(job) == job.attempt = job.retries

\* Lines 193-198: the error download_image throws is caught by the job,
\* which logs "Failed to download" and returns.
JobRethrow(job) == [job EXCEPT !.state = "rejected"]
JobCatch(job) == [job EXCEPT !.state = "done", !.outcome = "Failed"]

\* Lines 125-131: the catch block of one attempt.
CatchConversionFinal(job, error) ==
    IF FinalAttempt(job) \/ error = "ConversionError"
    THEN JobCatch([job EXCEPT !.error = error])
    ELSE [job EXCEPT !.state = "setTimeout", !.error = error,
                     !.wait = BackoffDelay(job.attempt)]
Catch(job, error) ==
    IF FinalAttempt(job)
    THEN JobCatch([job EXCEPT !.error = error])
    ELSE [job EXCEPT !.state = "setTimeout", !.error = error,
                     !.wait = BackoffDelay(job.attempt)]

\* Line 183: is the tile skipped?
SkipTestIgnoresForce(force, exists) == exists
SkipTestInverted(force, exists) == force /\ exists
SkipTestNever(force, exists) == FALSE
SkipTest(force, exists) == ~force /\ exists

\* Lines 180-191: the synchronous head of one job.
NewJob(tile, z, start) ==
    LET r == getTileUrlAndFilename(map_provider, TOKEN, tile.i, tile.j, z)
        job == [zoom |-> z, batch |-> start, i |-> tile.i, j |-> tile.j,
                url |-> r.url, filename |-> r.filename,
                isMapboxSatellite |-> r.isMapboxSatellite,
                retries |-> RetriesParam(myArgs), attempt |-> 0,
                state |-> "new", wait |-> 0, outcome |-> "none",
                error |-> "none", delays |-> << >>, convFailedAt |-> 0,
                existed |-> (r.filename \in DOMAIN files)]
    IN  IF SkipTest(myArgs.force, r.filename \in DOMAIN files)
        THEN [job EXCEPT !.state = "done", !.outcome = "Skipped"]
        ELSE LoopHead(job, 1)

Finished(job) == job.state = "done"
Rejected(job) == job.state = "rejected"

\* Lines 185 and 196: the job has passed a downloadedTiles++ , in the skip
\* branch or in the finally block.
ReturnedNotSkipped(job) ==
    (Finished(job) /\ job.outcome # "Skipped") \/ Rejected(job)
Returned(job) == Finished(job) \/ Rejected(job)

\* Line 177: tiles.slice(batchStart, batchStart + concurrency)
BatchOfOneMore(list, start, c) ==
    SubSeq(list, start + 1, Min2(start + c + 1, Len(list)))
BatchOf(list, start, c) == SubSeq(list, start + 1, Min2(start + c, Len(list)))

RECURSIVE CallsOf(_, _, _)
CallsOf(calls, js, k) ==
    IF k > Len(js) THEN calls
    ELSE CallsOf(IF js[k].state = "axios" THEN AddCall(calls, js[k].url) ELSE calls,
                 js, k + 1)

CurrentBatch == {k \in 1 .. Len(jobs) : jobs[k].zoom = zoom /\ jobs[k].batch = batchStart}

\* Line 178: Promise.all resolves when every job of the batch has returned,
\* and rejects as soon as one job throws.
BatchSettledAny == \E k \in CurrentBatch : Finished(jobs[k])
BatchSettledNoAwait == TRUE
BatchSettledByCounter == downloadedTiles >= Len(jobs)
BatchSettled == \A k \in CurrentBatch : Finished(jobs[k])
BatchRejected == \E k \in CurrentBatch : Rejected(jobs[k])

\* Lines 176-200: the loop test and the dispatch of one batch, or the end
\* of the zoom level (back in main, line 314).
BatchLoop ==
    /\ pc = "batchloop"
    /\ IF batchStart < Len(tiles)
       THEN LET batch == BatchOf(tiles, batchStart, concurrency)
                started == [k \in 1 .. Len(batch) |->
                              NewJob(batch[k], zoom, batchStart)]
                done == {k \in 1 .. Len(started) : Returned(started[k])}
            IN  /\ jobs' = jobs \o started
                /\ httpCalls' = CallsOf(httpCalls, started, 1)
                /\ downloadedTiles' = downloadedTiles + Cardinality(done)
                /\ pc' = "await"
                /\ UNCHANGED zoom
       ELSE /\ zoom' = zoom + 1
            /\ pc' = "zoomloop"
            /\ UNCHANGED << jobs, httpCalls, downloadedTiles >>
    /\ UNCHANGED << legacy, fnCalls, myArgs, map_provider, TOKEN, totalTiles, tiles,
                    batchStart, concurrency, files >>

\* Line 178 resumes: the next batch, or the rejection that main().catch
\* (lines 322-325) turns into exit code 1.
AwaitBatchSkipsOne ==
    /\ pc = "await"
    /\ BatchSettled \/ BatchRejected
    /\ IF BatchRejected
       THEN pc' = "exit1" /\ UNCHANGED batchStart
       ELSE pc' = "batchloop" /\ batchStart' = batchStart + concurrency + 1
    /\ UNCHANGED << legacy, fnCalls, myArgs, map_provider, TOKEN, totalTiles, downloadedTiles,
                    zoom, tiles, concurrency, jobs, files, httpCalls >>
AwaitBatch ==
    /\ pc = "await"
    /\ BatchSettled \/ BatchRejected
    /\ IF BatchRejected
       THEN pc' = "exit1" /\ UNCHANGED batchStart
       ELSE pc' = "batchloop" /\ batchStart' = batchStart + concurrency
    /\ UNCHANGED << legacy, fnCalls, myArgs, map_provider, TOKEN, totalTiles, downloadedTiles,
                    zoom, tiles, concurrency, jobs, files, httpCalls >>

(***************************************************************************)
(* The events of the environment, one per suspended job.                   *)
(***************************************************************************)
\* A job that has just changed: the counters of lines 196-197, and the
\* request of line 112 when the job starts an attempt.
SettleCountsAttempts(k, job) ==
    /\ pc # "exit1"
    /\ jobs' = [jobs EXCEPT ![k] = job]
    /\ downloadedTiles' = IF Returned(job) \/ job.state = "axios"
                          THEN downloadedTiles + 1
                          ELSE downloadedTiles
    /\ httpCalls' = IF job.state = "axios" /\ jobs[k].state # "axios"
                    THEN AddCall(httpCalls, job.url) ELSE httpCalls
Settle(k, job) ==
    /\ pc # "exit1"
    /\ jobs' = [jobs EXCEPT ![k] = job]
    /\ downloadedTiles' = IF Returned(job) THEN downloadedTiles + 1
                          ELSE downloadedTiles
    /\ httpCalls' = IF job.state = "axios" /\ jobs[k].state # "axios"
                    THEN AddCall(httpCalls, job.url) ELSE httpCalls

\* The request of line 112 is answered with a 2xx response.
AxiosResolve(k) ==
    /\ jobs[k].state = "axios"
    /\ Settle(k, [jobs[k] EXCEPT
                    !.state = IF jobs[k].isMapboxSatellite THEN "sharp"
                              ELSE "writeFile"])
    /\ UNCHANGED << legacy, fnCalls, myArgs, map_provider, TOKEN, totalTiles, pc, zoom, tiles,
                    batchStart, concurrency, files >>

\* The request fails: network error, timeout or a status that is not 2xx.
AxiosRejectTruncates(k) ==
    /\ jobs[k].state = "axios"
    /\ Settle(k, Catch(jobs[k], "NetworkError"))
    /\ files' = (jobs[k].filename :> "partial") @@ files
    /\ UNCHANGED << legacy, fnCalls, myArgs, map_provider, TOKEN, totalTiles, pc, zoom, tiles,
                    batchStart, concurrency >>
AxiosReject(k) ==
    /\ jobs[k].state = "axios"
    /\ Settle(k, Catch(jobs[k], "NetworkError"))
    /\ UNCHANGED << legacy, fnCalls, myArgs, map_provider, TOKEN, totalTiles, pc, zoom, tiles,
                    batchStart, concurrency, files >>

\* Line 120: the conversion to PNG succeeds.
SharpResolve(k) ==
    /\ jobs[k].state = "sharp"
    /\ Settle(k, [jobs[k] EXCEPT !.state = "writeFile"])
    /\ UNCHANGED << legacy, fnCalls, myArgs, map_provider, TOKEN, totalTiles, pc, zoom, tiles,
                    batchStart, concurrency, files >>

\* Line 120: the conversion to PNG fails.
SharpReject(k) ==
    /\ jobs[k].state = "sharp"
    /\ Settle(k, Catch([jobs[k] EXCEPT
                          !.convFailedAt = IF @ = 0 THEN jobs[k].attempt ELSE @],
                       "ConversionError"))
    /\ UNCHANGED << legacy, fnCalls, myArgs, map_provider, TOKEN, totalTiles, pc, zoom, tiles,
                    batchStart, concurrency, files >>

\* Lines 123-124 and 192: the file is written, the job logs "Downloaded".
WriteFileNotAwaited(k) ==
    /\ jobs[k].state = "writeFile"
    /\ Settle(k, [jobs[k] EXCEPT !.state = "done", !.outcome = "Success"])
    /\ UNCHANGED << legacy, fnCalls, myArgs, map_provider, TOKEN, totalTiles, pc, zoom, tiles,
                    batchStart, concurrency, files >>
WriteFileResolve(k) ==
    /\ jobs[k].state = "writeFile"
    /\ files' = (jobs[k].filename :> "new") @@ files
    /\ Settle(k, [jobs[k] EXCEPT !.state = "done", !.outcome = "Success"])
    /\ UNCHANGED << legacy, fnCalls, myArgs, map_provider, TOKEN, totalTiles, pc, zoom, tiles,
                    batchStart, concurrency >>

\* Line 130: the backoff timer fires, the loop goes to its next attempt.
TimerFires(k) ==
    /\ jobs[k].state = "setTimeout"
    /\ Settle(k, LoopHead([jobs[k] EXCEPT !.delays = Append(@, jobs[k].wait)],
                          jobs[k].attempt + 1))
    /\ UNCHANGED << legacy, fnCalls, myArgs, map_provider, TOKEN, totalTiles, pc, zoom, tiles,
                    batchStart, concurrency, files >>

Next ==
    \/ fn_handle_arguments
    \/ CountTotalTiles
    \/ ZoomLoop
    \/ BatchLoop
    \/ AwaitBatch
    \/ \E k \in 1 .. Len(jobs) : AxiosResolve(k)
    \/ \E k \in 1 .. Len(jobs) : AxiosReject(k)
    \/ \E k \in 1 .. Len(jobs) : SharpResolve(k)
    \/ \E k \in 1 .. Len(jobs) : SharpReject(k)
    \/ \E k \in 1 .. Len(jobs) : WriteFileResolve(k)
    \/ \E k \in 1 .. Len(jobs) : TimerFires(k)

Spec == Init /\ [][Next]_vars

\* The event loop runs whatever is ready: main's continuation, and every
\* request, conversion, write and timer, which all come to an end (the
\* request by its 10 s timeout at the latest, line 115).
FairSpec == Spec /\ WF_vars(Next)

(***************************************************************************)
(* The runs in which the write of line 123 can fail as well.  writeFile    *)
(* opens the file for writing, which creates or truncates it, and then     *)
(* writes the buffer: a write that fails leaves the folder as it was (the  *)
(* open failed) or leaves a file that is not the whole tile.  The error is *)
(* caught by the catch block of the attempt (lines 125-131) like every     *)
(* other error of the attempt.                                             *)
(***************************************************************************)
WriteFileReject(k) ==
    /\ jobs[k].state = "writeFile"
    /\ Settle(k, Catch(jobs[k], "FilesystemError"))
    /\ files' \in {files, (jobs[k].filename :> "partial") @@ files}
    /\ UNCHANGED << legacy, fnCalls, myArgs, map_provider, TOKEN, totalTiles, pc, zoom, tiles,
                    batchStart, concurrency >>

FsNext ==
    \/ fn_handle_arguments
    \/ CountTotalTiles
    \/ ZoomLoop
    \/ BatchLoop
    \/ AwaitBatch
    \/ \E k \in 1 .. Len(jobs) : AxiosResolve(k)
    \/ \E k \in 1 .. Len(jobs) : AxiosReject(k)
    \/ \E k \in 1 .. Len(jobs) : SharpResolve(k)
    \/ \E k \in 1 .. Len(jobs) : SharpReject(k)
    \/ \E k \in 1 .. Len(jobs) : WriteFileResolve(k)
    \/ \E k \in 1 .. Len(jobs) : WriteFileReject(k)
    \/ \E k \in 1 .. Len(jobs) : TimerFires(k)

\* The runs followed with failing writes: a retry bound of 2, one tile per
\* zoom level or four tiles in batches of two.
FsRuns ==
    { a \in RetryRuns : a.retries = 2 }
    \cup { a \in BatchRuns : a.zout # Undefined /\ a.retries = 2
                                /\ a.concurrency = 2 }

FsInit == Init /\ myArgs \in FsRuns

FsSpec == FsInit /\ [][FsNext]_vars

(***************************************************************************)
(* The two pure functions on their own: getTileUrlAndFilename (which       *)
(* reads the globals map_provider and TOKEN) and                           *)
(* fn_convertFromLngLatToPoints, called with arguments drawn from the      *)
(* samples below; fnCalls records each call with its result.  A second     *)
(* call of getTileUrlAndFilename takes any arguments, a second call of     *)
(* fn_convertFromLngLatToPoints takes the corners of the first in another  *)
(* order.                                                                  *)
(***************************************************************************)
TileIndexSamples == {0, 1, 11, 111}
TileZoomSamples == {0, 1, 11}
TokenSamples == {"tk", "pk.eyJ1"}
LatSamples == {-900000, -100000, 100000, 407128, 407228, 450000, 900000}
LngSamples == {-1800000, -740060, 100000, 1800000}

FnInit ==
    /\ myArgs = Args(OneTileBox, Undefined, 1, Undefined, "", Undefined,
                     Undefined, FALSE)
    /\ map_provider = DEFAULT_PROVIDER
    /\ TOKEN = ""
    /\ totalTiles = 0
    /\ downloadedTiles = 0
    /\ pc = "functions"
    /\ zoom = 0
    /\ tiles = << >>
    /\ batchStart = 0
    /\ concurrency = 0
    /\ jobs = << >>
    /\ files = << >>
    /\ httpCalls = << >>
    /\ fnCalls = << >>
    /\ variant = "bin/mapcache_download"
    /\ chains = << >>

CallOf(name) ==
    /\ pc = "functions"
    /\ Len(fnCalls) < 2
    /\ \A n \in 1 .. Len(fnCalls) : fnCalls[n].fn = name

CallGetTileUrlAndFilename ==
    /\ CallOf("getTileUrlAndFilename")
    /\ \E p \in 0 .. 2, t \in TokenSamples, i \in TileIndexSamples,
          j \in TileIndexSamples, z \in TileZoomSamples :
          /\ map_provider' = p
          /\ TOKEN' = t
          /\ fnCalls' = Append(fnCalls,
                [fn |-> "getTileUrlAndFilename", provider |-> p, token |-> t,
                 i |-> i, j |-> j, zoom |-> z,
                 result |-> getTileUrlAndFilename(p, t, i, j, z)])
    /\ UNCHANGED << legacy, myArgs, totalTiles, downloadedTiles, pc, zoom, tiles,
                    batchStart, concurrency, jobs, files, httpCalls >>

ConvertCall(lat1, lng1, lat2, lng2, z) ==
    [fn |-> "fn_convertFromLngLatToPoints", lat1 |-> lat1, lng1 |-> lng1,
     lat2 |-> lat2, lng2 |-> lng2, zoom |-> z,
     result |-> fn_convertFromLngLatToPoints(lat1, lng1, lat2, lng2, z)]

CallConvert ==
    /\ CallOf("fn_convertFromLngLatToPoints")
    /\ fnCalls = << >>
    /\ \E lat1 \in LatSamples, lat2 \in LatSamples, lng1 \in LngSamples,
          lng2 \in LngSamples, z \in 0 .. MAX_ZOOM_ALLOWED :
          fnCalls' = << ConvertCall(lat1, lng1, lat2, lng2, z) >>
    /\ UNCHANGED << legacy, myArgs, map_provider, TOKEN, totalTiles, downloadedTiles,
                    pc, zoom, tiles, batchStart, concurrency, jobs, files,
                    httpCalls >>

CallConvertSwapped ==
    /\ CallOf("fn_convertFromLngLatToPoints")
    /\ Len(fnCalls) = 1
    /\ \E swapLat \in BOOLEAN, swapLng \in BOOLEAN :
          LET c == fnCalls[1]
          IN  fnCalls' = Append(fnCalls,
                ConvertCall(IF swapLat THEN c.lat2 ELSE c.lat1,
                            IF swapLng THEN c.lng2 ELSE c.lng1,
                            IF swapLat THEN c.lat1 ELSE c.lat2,
                            IF swapLng THEN c.lng1 ELSE c.lng2,
                            c.zoom))
    /\ UNCHANGED << legacy, myArgs, map_provider, TOKEN, totalTiles, downloadedTiles,
                    pc, zoom, tiles, batchStart, concurrency, jobs, files,
                    httpCalls >>

FnNext ==
    \/ CallGetTileUrlAndFilename
    \/ CallConvert
    \/ CallConvertSwapped

FnSpec == FnInit /\ [][FnNext]_vars

(***************************************************************************)
(* Two runs that differ in their counters only.  updateProgress (lines     *)
(* 208-211) is the one reader of totalTiles and downloadedTiles.  From a   *)
(* state of a run, OtherCounters steps to the state of a second run that   *)
(* is at the same point with other values in the two counters; fnCalls     *)
(* keeps the counters of the first run, and the second run is followed no  *)
(* further.  The runs are a part of getArgs: one batch retry, or a retry   *)
(* bound of 2, and the rejected command lines.                             *)
(***************************************************************************)
CounterSamples == { << 0, 7 >>, << 7, 0 >> }

ObsRuns ==
    { a \in RetryRuns : a.zout # Undefined /\ a.retries = 2 }
    \cup { a \in BatchRuns : a.zout # Undefined /\ a.retries = 1
                                /\ a.concurrency = MaxConcurrency }
    \cup InvalidRuns

ObsInit == Init /\ myArgs \in ObsRuns

FirstRun == fnCalls = << >>

OtherCounters ==
    /\ FirstRun
    /\ \E c \in CounterSamples : totalTiles' = c[1] /\ downloadedTiles' = c[2]
    /\ fnCalls' = << [fn |-> "updateProgress", totalTiles |-> totalTiles,
                      downloadedTiles |-> downloadedTiles] >>
    /\ UNCHANGED << legacy, myArgs, map_provider, TOKEN, pc, zoom, tiles,
                    batchStart, concurrency, jobs, files, httpCalls >>

ObsNext ==
    \/ FirstRun /\ fn_handle_arguments
    \/ FirstRun /\ CountTotalTiles
    \/ FirstRun /\ ZoomLoop
    \/ FirstRun /\ BatchLoop
    \/ FirstRun /\ AwaitBatch
    \/ FirstRun /\ \E k \in 1 .. Len(jobs) : AxiosResolve(k)
    \/ FirstRun /\ \E k \in 1 .. Len(jobs) : AxiosReject(k)
    \/ FirstRun /\ \E k \in 1 .. Len(jobs) : SharpResolve(k)
    \/ FirstRun /\ \E k \in 1 .. Len(jobs) : SharpReject(k)
    \/ FirstRun /\ \E k \in 1 .. Len(jobs) : WriteFileResolve(k)
    \/ FirstRun /\ \E k \in 1 .. Len(jobs) : TimerFires(k)
    \/ OtherCounters

ObsSpec == ObsInit /\ [][ObsNext]_vars

(***************************************************************************)
(* The legacy variants, src/download2.js and src/mapcache_download.js      *)
(* (lines 382-807, the later of the two copies the file holds).  Both      *)
(* start from main's loop over the zoom levels, which calls                *)
(* fn_download_images once per level; fn_download_images starts an async   *)
(* function and returns at once.  A record of chains is one such async     *)
(* function: the tiles of its level, the position of its loop (tile c,     *)
(* image m of the tile), the download it is suspended on, and how many of  *)
(* its downloads have failed.  Filenames are relative to the folder; the   *)
(* access token written in the source is abbreviated.                      *)
(***************************************************************************)
MaxFailures == 2

LEGACY_TOKEN == "pk.eyJ1"

LegacyVariants == {"download2", "mapcache_download"}

\* download2.js lines 175-183 and mapcache_download.js lines 749-751: the
\* corners and the zoom range, once the arguments are read.
LegacyRuns ==
    { Args(OneTileBox, zo, zi, Undefined, "", Undefined, Undefined, FALSE) :
        zo \in 0 .. 1, zi \in 1 .. MaxZoom }

\* The images fetched for one tile: download2.js fetches the terrain image
\* (not at zoom 18) and then the satellite image.
ImagesOf(v, z) ==
    IF v = "download2"
    THEN IF z # 18 THEN << "terrain", "satellite" >> ELSE << "satellite" >>
    ELSE << "tile" >>

LegacyUrl(v, image, z, i, j) ==
    LET zij == ToString(z) \o "/" \o ToString(i) \o "/" \o ToString(j)
    IN  IF image = "terrain"
        THEN "https://api.mapbox.com/v4/mapbox.terrain-rgb/" \o zij
             \o "@2x.pngraw?access_token=" \o LEGACY_TOKEN
        ELSE IF v = "download2" \/ map_provider = 1
        THEN "https://api.mapbox.com/styles/v1/mapbox/satellite-v9/tiles/"
             \o zij \o "?access_token=" \o LEGACY_TOKEN
        ELSE "https://tile.openstreetmap.org/" \o zij \o ".png"

LegacyFilename(v, image, z, i, j) ==
    IF image = "terrain"
    THEN ToString(i) \o "_" \o ToString(j) \o "_rgb_" \o ToString(z) \o ".pngraw"
    ELSE IF v = "download2"
    THEN ToString(i) \o "_" \o ToString(j) \o "_" \o ToString(z) \o ".jpeg"
    ELSE ToString(z) \o "_" \o ToString(i) \o "_" \o ToString(j) \o ".jpeg"

\* The two loops of fn_download_images: the range padded by one tile on
\* the high edge of each axis.
PaddedTileList(point1, point2) ==
    TileList(point1, [x |-> point2.x + 1, y |-> point2.y + 1])

LegacyOldFiles(v, a) == { LegacyFilename(v, ImagesOf(v, 0)[1], 0, 0, 0) }

LegacyInit ==
    /\ variant \in LegacyVariants
    /\ myArgs \in LegacyRuns
    /\ myArgs.zout <= myArgs.zin
    /\ map_provider = 1
    /\ TOKEN = LEGACY_TOKEN
    /\ totalTiles = 0
    /\ downloadedTiles = 0
    /\ pc = "legacy_main"
    /\ zoom = myArgs.zout
    /\ tiles = << >>
    /\ batchStart = 0
    /\ concurrency = 0
    /\ jobs = << >>
    /\ \E old \in SUBSET LegacyOldFiles(variant, myArgs) :
          files = [f \in old |-> "old"]
    /\ httpCalls = << >>
    /\ fnCalls = << >>
    /\ chains = << >>

\* The body of the async function from tile c, image m on, up to its next
\* await: a file that exists is passed over without a download.
RECURSIVE fn_download_images(_, _, _, _)
fn_download_images(chain, c, m, folder) ==
    IF c > Len(chain.tiles)
    THEN [chain EXCEPT !.c = c, !.m = 1, !.state = "done"]
    ELSE IF m > Len(ImagesOf(variant, chain.zoom))
    THEN fn_download_images(chain, c + 1, 1, folder)
    ELSE LET image == ImagesOf(variant, chain.zoom)[m]
             t == chain.tiles[c]
             filename == LegacyFilename(variant, image, chain.zoom, t.i, t.j)
         IN  IF filename \in DOMAIN folder
             THEN fn_download_images(chain, c, m + 1, folder)
             ELSE [chain EXCEPT !.c = c, !.m = m, !.state = "axios",
                                !.image = image, !.filename = filename,
                                !.url = LegacyUrl(variant, image, chain.zoom,
                                                  t.i, t.j)]

\* A chain has just moved: the request it starts, if it starts one.
LegacyRequest(calls, chain) ==
    IF chain.state = "axios" THEN AddCall(calls, chain.url) ELSE calls

\* main's loop over the zoom levels.  It has no await, so every level's
\* async function is started before the first response is handled.
LegacyMain ==
    /\ pc = "legacy_main"
    /\ IF zoom <= myArgs.zin
       THEN LET r == fn_convertFromLngLatToPoints(myArgs.lat1, myArgs.lng1,
                                                  myArgs.lat2, myArgs.lng2, zoom)
                new == [zoom |-> zoom, tiles |-> PaddedTileList(r[1], r[2]),
                        c |-> 1, m |-> 1, state |-> "new", image |-> "none",
                        url |-> "", filename |-> "", failed |-> 0]
                chain == fn_download_images(new, 1, 1, files)
            IN  /\ chains' = Append(chains, chain)
                /\ httpCalls' = LegacyRequest(httpCalls, chain)
                /\ zoom' = zoom + 1
                /\ UNCHANGED pc
       ELSE /\ pc' = "legacy_idle"
            /\ UNCHANGED << chains, httpCalls, zoom >>
    /\ UNCHANGED << variant, fnCalls, myArgs, map_provider, TOKEN, totalTiles,
                    downloadedTiles, tiles, batchStart, concurrency, jobs, files >>

\* The downloads of the run that have failed so far.
RECURSIVE FailuresUpTo(_)
FailuresUpTo(n) == IF n = 0 THEN 0 ELSE chains[n].failed + FailuresUpTo(n - 1)

Failures == FailuresUpTo(Len(chains))

\* Is the rejection of download_image caught?  download2.js wraps only the
\* terrain download in try/catch; mapcache_download.js ends download_image
\* with a catch that logs the error.
Caught(v, image) == v = "mapcache_download" \/ image = "terrain"

\* download_image has settled for chain n: the loop goes on after a
\* success or a caught error; an error nobody catches rejects the async
\* function, and the unhandled rejection ends the process or is only
\* reported, as the version of Node decides.
LegacySettle(n, failed, folder) ==
    LET chain == [chains[n] EXCEPT !.failed = @ + (IF failed THEN 1 ELSE 0)]
    IN  IF failed /\ ~Caught(variant, chain.image)
        THEN /\ chains' = [chains EXCEPT ![n] = [chain EXCEPT !.state = "rejected"]]
             /\ pc' \in {"legacy_idle", "exit1"}
             /\ UNCHANGED httpCalls
        ELSE LET next == fn_download_images(chain, chain.c, chain.m + 1, folder)
             IN  /\ chains' = [chains EXCEPT ![n] = next]
                 /\ httpCalls' = LegacyRequest(httpCalls, next)
                 /\ UNCHANGED pc

\* The response arrives: the then-callback opens the write stream, which
\* creates the file, and pipes the body into it.
StreamResponse(n) ==
    /\ pc = "legacy_idle"
    /\ chains[n].state = "axios"
    /\ chains' = [chains EXCEPT ![n].state = "pipe"]
    /\ files' = (chains[n].filename :> "partial") @@ files
    /\ UNCHANGED << variant, fnCalls, myArgs, map_provider, TOKEN, totalTiles,
                    downloadedTiles, pc, zoom, tiles, batchStart, concurrency,
                    jobs, httpCalls >>

\* The request fails: network error or a status that is not 2xx.
StreamRequestFails(n) ==
    /\ pc = "legacy_idle"
    /\ chains[n].state = "axios"
    /\ Failures < MaxFailures
    /\ LegacySettle(n, TRUE, files)
    /\ UNCHANGED << variant, fnCalls, myArgs, map_provider, TOKEN, totalTiles,
                    downloadedTiles, zoom, tiles, batchStart, concurrency,
                    jobs, files >>

\* The write stream emits 'finish': the file is complete.
PipeFinish(n) ==
    /\ pc = "legacy_idle"
    /\ chains[n].state = "pipe"
    /\ files' = (chains[n].filename :> "new") @@ files
    /\ LegacySettle(n, FALSE, files')
    /\ UNCHANGED << variant, fnCalls, myArgs, map_provider, TOKEN, totalTiles,
                    downloadedTiles, zoom, tiles, batchStart, concurrency, jobs >>

\* The write stream emits 'error': the file stays as far as it was written.
PipeError(n) ==
    /\ pc = "legacy_idle"
    /\ chains[n].state = "pipe"
    /\ Failures < MaxFailures
    /\ LegacySettle(n, TRUE, files)
    /\ UNCHANGED << variant, fnCalls, myArgs, map_provider, TOKEN, totalTiles,
                    downloadedTiles, zoom, tiles, batchStart, concurrency,
                    jobs, files >>

LegacyNext ==
    \/ LegacyMain
    \/ \E n \in 1 .. Len(chains) : StreamResponse(n)
    \/ \E n \in 1 .. Len(chains) : StreamRequestFails(n)
    \/ \E n \in 1 .. Len(chains) : PipeFinish(n)
    \/ \E n \in 1 .. Len(chains) : PipeError(n)

LegacySpec == LegacyInit /\ [][LegacyNext]_vars

(***************************************************************************)
(* Vocabulary of the properties.                                           *)
(***************************************************************************)
JobIds == 1 .. Len(jobs)

\* The jobs whose download_image call has started and has not settled.
InFlight ==
    {k \in JobIds : jobs[k].state \in {"axios", "sharp", "writeFile", "setTimeout"}}

\* The ceiling the command line asks for: --concurrency, 5 when not given.
ConfiguredCeiling ==
    IF myArgs.concurrency = Undefined THEN DEFAULT_CONCURRENCY
    ELSE myArgs.concurrency

Outcomes == {"Success", "Skipped", "Failed"}

HasOutcome(k) == jobs[k].state = "done" /\ jobs[k].outcome \in Outcomes

\* The tiles of zoom level z, as the range computation gives them.
TilesOfZoom(z) ==
    LET r == fn_convertFromLngLatToPoints(myArgs.lat1, myArgs.lng1,
                                          myArgs.lat2, myArgs.lng2, z)
    IN  {[i |-> i, j |-> j] : i \in r[1].x .. r[2].x, j \in r[1].y .. r[2].y}

\* Tile t of zoom z has been dispatched and has reached an outcome.
TileDone(t, z) ==
    \E k \in JobIds :
        jobs[k].zoom = z /\ jobs[k].i = t.i /\ jobs[k].j = t.j /\ HasOutcome(k)

Requests(k) == IF jobs[k].url \in DOMAIN httpCalls THEN httpCalls[jobs[k].url] ELSE 0

(***************************************************************************)
(* C1.  At every instant the number of tile jobs whose download_image      *)
(* call has started and not yet settled is at most the concurrency         *)
(* ceiling C, also when the job list is longer than C.                     *)
(***************************************************************************)
C1_ConcurrencyCeiling == Cardinality(InFlight) <= ConfiguredCeiling

\* Four tiles under a ceiling of 2: the second batch is in flight, full,
\* with one of its jobs waiting in a backoff.
C1_Witness ==
    /\ myArgs.concurrency = 2
    /\ Len(tiles) > 2
    /\ batchStart = 2
    /\ Cardinality(InFlight) = 2
    /\ \E k \in InFlight : jobs[k].state = "setTimeout"

(***************************************************************************)
(* C2.  Batch barrier: no job of a later batch of a zoom level is          *)
(* dispatched (neither its exists-check nor its fetch) until every job of  *)
(* the earlier batches has reached an outcome, Success, Skipped or Failed, *)
(* jobs waiting in a backoff delay included.                               *)
(***************************************************************************)
C2_BatchBarrier ==
    \A a, b \in JobIds :
        (jobs[a].zoom = jobs[b].zoom /\ jobs[a].batch < jobs[b].batch)
            => HasOutcome(a)

\* A job of the second batch is being fetched after a job of the first
\* batch went through a backoff delay.
C2_Witness ==
    \E a, b \in JobIds :
        /\ jobs[a].zoom = jobs[b].zoom
        /\ jobs[a].batch < jobs[b].batch
        /\ Len(jobs[a].delays) >= 1
        /\ jobs[b].state = "axios"

(***************************************************************************)
(* C3.  Zoom levels are processed in ascending sequence zout..zin: no job  *)
(* of a zoom level is enumerated or dispatched before every tile of every  *)
(* lower zoom level has reached an outcome, so jobs of two zoom levels     *)
(* are never in flight together.                                           *)
(***************************************************************************)
C3_ZoomSequence ==
    /\ \A a, b \in JobIds : a < b => jobs[a].zoom <= jobs[b].zoom
    /\ \A a, b \in JobIds : jobs[a].zoom < jobs[b].zoom => HasOutcome(a)
    /\ \A a, b \in InFlight : jobs[a].zoom = jobs[b].zoom
    /\ \A a \in JobIds : jobs[a].zoom \in myArgs.zout .. myArgs.zin
    /\ pc \in {"batchloop", "await"} =>
          \A z \in myArgs.zout .. (zoom - 1) :
              \A t \in TilesOfZoom(z) : TileDone(t, z)

\* A tile of zoom 1 is in flight after the tile of zoom 0 has failed.
C3_Witness ==
    \E a, b \in JobIds :
        /\ jobs[a].zoom = 0 /\ jobs[a].outcome = "Failed"
        /\ jobs[b].zoom = 1 /\ b \in InFlight

(***************************************************************************)
(* C4.  Skip logic: with force false, a job whose destination file exists  *)
(* when it is dispatched is recorded as Skipped, and no HTTP request is    *)
(* ever issued for its tile.                                               *)
(***************************************************************************)
C4_SkipExisting ==
    \A k \in JobIds :
        (~myArgs.force /\ jobs[k].existed) =>
            /\ HasOutcome(k)
            /\ jobs[k].outcome = "Skipped"
            /\ Requests(k) = 0

\* The run is complete; one job of a batch was skipped, its sibling fetched.
C4_Witness ==
    /\ pc = "complete"
    /\ ~myArgs.force
    /\ \E k, l \in JobIds :
          /\ jobs[k].existed /\ jobs[k].outcome = "Skipped"
          /\ jobs[l].zoom = jobs[k].zoom /\ jobs[l].batch = jobs[k].batch
          /\ jobs[l].outcome = "Success"

(***************************************************************************)
(* C5.  Force: with force true the fetcher is invoked at least once for    *)
(* every enumerated tile, whether or not its file exists, and a tile that  *)
(* is downloaded successfully overwrites the file that was there.          *)
(***************************************************************************)
C5_ForceFetchesAll ==
    myArgs.force =>
        /\ \A k \in JobIds :
              /\ jobs[k].outcome # "Skipped"
              /\ Requests(k) >= 1
              /\ jobs[k].outcome = "Success" =>
                    (jobs[k].filename \in DOMAIN files
                        /\ files[jobs[k].filename] = "new")
        /\ pc = "complete" =>
              \A z \in myArgs.zout .. myArgs.zin :
                  \A t \in TilesOfZoom(z) :
                      \E k \in JobIds :
                          /\ jobs[k].zoom = z /\ jobs[k].i = t.i /\ jobs[k].j = t.j
                          /\ Requests(k) >= 1

\* The run is complete, under force, and an existing file was overwritten.
C5_Witness ==
    /\ pc = "complete"
    /\ myArgs.force
    /\ \E k \in JobIds :
          /\ jobs[k].existed /\ jobs[k].outcome = "Success"
          /\ files[jobs[k].filename] = "new"

(***************************************************************************)
(* C6.  Retry bound: for every configured retries value R (a non-negative  *)
(* integer, 3 when the option is not given) at most R HTTP fetch attempts  *)
(* are made for one tile.                                                  *)
(***************************************************************************)
ConfiguredRetries ==
    IF myArgs.retries = Undefined THEN DEFAULT_RETRIES ELSE myArgs.retries

C6_RetryBound ==
    \A k \in JobIds : jobs[k].attempt <= ConfiguredRetries
                      /\ Requests(k) <= ConfiguredRetries

\* The bound holds for every R >= 1 and for the option not given.
C6_RetryBoundPositive == myArgs.retries # 0 => C6_RetryBound

\* A tile was requested R = 2 times, and a tile 3 times with no option.
C6_PositiveWitness ==
    /\ \E k \in JobIds : Requests(k) = ConfiguredRetries
    /\ myArgs.retries \in {Undefined, 2}

(***************************************************************************)
(* C7.  Retry exhaustion is isolated: a tile whose attempts all fail ends  *)
(* as Failed, no exception crosses the job boundary, its siblings go on,   *)
(* and every remaining batch and zoom level is still processed: the run    *)
(* stops only at "Download complete!", with an outcome for every tile.     *)
(***************************************************************************)
JobCanStep(k) ==
    ENABLED (\/ AxiosResolve(k) \/ AxiosReject(k) \/ SharpResolve(k)
             \/ SharpReject(k) \/ WriteFileResolve(k) \/ TimerFires(k))

C7_ExhaustionIsolated ==
    /\ \A k \in JobIds :
          /\ ~Rejected(jobs[k])
          /\ (Finished(jobs[k]) /\ jobs[k].error # "none") =>
                /\ jobs[k].outcome = "Failed"
                /\ jobs[k].attempt = jobs[k].retries
                /\ Requests(k) = jobs[k].retries
          /\ jobs[k].outcome = "Failed" => jobs[k].error # "none"
          /\ k \in InFlight => JobCanStep(k)
    /\ pc = "exit1" => jobs = << >>
    /\ ~(ENABLED Next) => pc \in {"complete", "exit1"}
    /\ pc = "complete" =>
          \A z \in myArgs.zout .. myArgs.zin :
              \A t \in TilesOfZoom(z) : TileDone(t, z)

\* The run is complete: a tile failed on all its attempts, a sibling of its
\* batch succeeded, and a later batch was processed.
C7_Witness ==
    /\ pc = "complete"
    /\ \E a, b, c \in JobIds :
          /\ jobs[a].outcome = "Failed" /\ jobs[a].error = "NetworkError"
          /\ Requests(a) = jobs[a].retries
          /\ b # a /\ jobs[b].zoom = jobs[a].zoom /\ jobs[b].batch = jobs[a].batch
          /\ jobs[b].outcome = "Success"
          /\ jobs[c].zoom = jobs[a].zoom /\ jobs[c].batch > jobs[a].batch
          /\ HasOutcome(c)

(***************************************************************************)
(* C8.  Retry success: when attempts 1..k-1 of a tile fail and attempt k,  *)
(* k <= retries, succeeds (k = retries included), the tile's outcome is    *)
(* Success, its file is written, exactly k HTTP requests were made for it, *)
(* none after the success, and no error escapes the job.                   *)
(***************************************************************************)
C8_State ==
    \A k \in JobIds :
        /\ ~Rejected(jobs[k])
        /\ jobs[k].state = "writeFile" =>
              /\ 1 <= jobs[k].attempt /\ jobs[k].attempt <= jobs[k].retries
              /\ Requests(k) = jobs[k].attempt
        /\ jobs[k].outcome = "Success" =>
              /\ Finished(jobs[k])
              /\ 1 <= jobs[k].attempt /\ jobs[k].attempt <= jobs[k].retries
              /\ Requests(k) = jobs[k].attempt
              /\ jobs[k].filename \in DOMAIN files
              /\ files[jobs[k].filename] = "new"

\* An attempt that has its bytes ends in Success, at that attempt; and a
\* response that needs no conversion is such an attempt.
C8_Step ==
    \A k \in JobIds :
        /\ (jobs[k].state = "writeFile" /\ jobs'[k] # jobs[k]) =>
              /\ jobs'[k].outcome = "Success"
              /\ jobs'[k].attempt = jobs[k].attempt
              /\ files'[jobs[k].filename] = "new"
        /\ (jobs[k].state = "axios" /\ ~jobs[k].isMapboxSatellite
              /\ jobs'[k].error = "none" /\ jobs'[k] # jobs[k]) =>
              jobs'[k].state = "writeFile"

C8_RetrySuccess == [](C8_State) /\ [][C8_Step]_vars

\* A tile succeeded on its last attempt, after a failure: k = retries >= 2.
C8_Witness ==
    \E k \in JobIds :
        /\ jobs[k].outcome = "Success"
        /\ jobs[k].attempt = jobs[k].retries
        /\ jobs[k].retries >= 2
        /\ Requests(k) = jobs[k].retries
        /\ files[jobs[k].filename] = "new"

(***************************************************************************)
(* C9.  As claimed: when the fetch of a MapboxSatellite tile succeeds but  *)
(* the conversion fails, the tile is recorded as Failed and no additional  *)
(* HTTP request is issued for it.                                          *)
(***************************************************************************)
C9_ConversionFailureEndsTile ==
    \A k \in JobIds :
        jobs[k].convFailedAt > 0 =>
            /\ Requests(k) = jobs[k].convFailedAt
            /\ HasOutcome(k) => jobs[k].outcome = "Failed"

(***************************************************************************)
(* C9, amended.  A conversion is attempted once per successful fetch, and  *)
(* its failure is the failure of that attempt: on attempt k = retries the  *)
(* tile is recorded as Failed, on attempt k < retries the tile is fetched  *)
(* again after k backoff units, at most retries requests in all.           *)
(***************************************************************************)
C9_State ==
    \A k \in JobIds :
        /\ jobs[k].convFailedAt > 0 => jobs[k].isMapboxSatellite
        /\ jobs[k].state = "sharp" =>
              jobs[k].isMapboxSatellite /\ Requests(k) = jobs[k].attempt
        /\ jobs[k].error = "ConversionError" =>
              /\ jobs[k].convFailedAt \in 1 .. jobs[k].attempt
              /\ Requests(k) = jobs[k].attempt
              /\ jobs[k].attempt <= jobs[k].retries
              /\ jobs[k].attempt = jobs[k].retries =>
                    (Finished(jobs[k]) /\ jobs[k].outcome = "Failed")
              /\ jobs[k].attempt < jobs[k].retries =>
                    (jobs[k].state = "setTimeout"
                        /\ jobs[k].wait = 1000 * jobs[k].attempt)

\* A conversion starts only on a response, and ends in the write or in the
\* catch block; the retry after a failed conversion is a new request.
C9_Step ==
    \A k \in JobIds :
        /\ (jobs'[k].state = "sharp" /\ jobs[k].state # "sharp") =>
              (jobs[k].state = "axios" /\ jobs'[k].attempt = jobs[k].attempt)
        /\ (jobs[k].state = "sharp" /\ jobs'[k] # jobs[k]) =>
              jobs'[k].state \in {"writeFile", "setTimeout", "done"}
        /\ (jobs[k].state = "setTimeout" /\ jobs[k].error = "ConversionError"
              /\ jobs'[k] # jobs[k]) =>
              /\ jobs'[k].state = "axios"
              /\ jobs'[k].attempt = jobs[k].attempt + 1
              /\ httpCalls'[jobs[k].url] = httpCalls[jobs[k].url] + 1

C9_ConversionFailureRetried == [](C9_State) /\ [][C9_Step]_vars

\* A satellite tile was fetched again after its conversion had failed.
C9_Witness ==
    \E k \in JobIds :
        /\ jobs[k].isMapboxSatellite
        /\ jobs[k].convFailedAt = 1
        /\ Requests(k) >= 2
        /\ HasOutcome(k)

C11_ExponentialBackoff ==
    \A k \in JobIds :
        LET d == jobs[k].delays
        IN  /\ \A n \in 1 .. (Len(d) - 1) : d[n + 1] > d[n]
            /\ \A n \in 1 .. (Len(d) - 2) : d[n + 1] * d[n + 1] = d[n] * d[n + 2]

(***************************************************************************)
(* C12.  Every tile outcome is reported exactly once: downloadedTiles is   *)
(* incremented exactly once for every enumerated tile, whatever its        *)
(* outcome, Success, Skipped or Failed, and when the run completes it      *)
(* equals the number of tiles enumerated over all zoom levels.             *)
(***************************************************************************)
RECURSIVE EnumeratedFrom(_)
EnumeratedFrom(z) ==
    IF z > myArgs.zin THEN 0
    ELSE Cardinality(TilesOfZoom(z)) + EnumeratedFrom(z + 1)

\* The number of tiles of all the zoom levels zout..zin.
EnumeratedTiles == EnumeratedFrom(myArgs.zout)

WithOutcome == {k \in JobIds : HasOutcome(k)}

C12_State ==
    /\ downloadedTiles = Cardinality(WithOutcome)
    /\ \A o \in Outcomes :
          Cardinality({k \in JobIds : jobs[k].outcome = o}) <= downloadedTiles
    /\ pc = "complete" =>
          /\ downloadedTiles = EnumeratedTiles
          /\ Len(jobs) = EnumeratedTiles

\* A step counts the jobs that reach their outcome in it, once each, and
\* an outcome, once reached, is not reported again.
C12_Step ==
    LET reached == {k \in 1 .. Len(jobs') :
                      /\ jobs'[k].state = "done"
                      /\ jobs'[k].outcome \in Outcomes
                      /\ ~(k \in JobIds /\ HasOutcome(k))}
    IN  /\ downloadedTiles' = downloadedTiles + Cardinality(reached)
        /\ \A k \in WithOutcome : jobs'[k] = jobs[k]

C12_ReportedOnce == [](C12_State) /\ [][C12_Step]_vars

\* The run is complete with a tile skipped, a tile downloaded and a tile
\* failed, each counted once.
C12_Witness ==
    /\ pc = "complete"
    /\ \A o \in Outcomes : \E k \in JobIds : jobs[k].outcome = o
    /\ downloadedTiles = Len(jobs)
    /\ downloadedTiles >= 3

(***************************************************************************)
(* C13.  The total counter counts each tile once: after all zoom levels    *)
(* of a run have been enumerated, totalTiles equals the sum over the zoom  *)
(* levels zout..zin of the number of tiles in that level's job list.       *)
(***************************************************************************)
AllLevelsEnumerated ==
    \/ pc = "complete"
    \/ pc \in {"batchloop", "await"} /\ zoom = myArgs.zin

C13_TotalCountsOnce == AllLevelsEnumerated => totalTiles = EnumeratedTiles

(***************************************************************************)
(* C14.  Progress reaches completion: when the run prints "Download        *)
(* complete!", downloadedTiles equals totalTiles, so the last progress     *)
(* report of the run is 100%.                                              *)
(***************************************************************************)
C14_ProgressComplete == pc = "complete" => downloadedTiles = totalTiles

(***************************************************************************)
(* C15.  Pre-flight errors abort before any network activity: when the     *)
(* provider requires a token and none is given, or the zoom range is       *)
(* invalid (zout > zin, zout < 0 or zin > 22), the run stops with a        *)
(* non-zero exit, no URL is built and no HTTP request is issued.           *)
(***************************************************************************)
MissingToken ==
    myArgs.provider \in {1, 2} /\ myArgs.token = ""

InvalidZoomRange ==
    LET zo == IF myArgs.zout = Undefined THEN DEFAULT_ZOUT ELSE myArgs.zout
    IN  zo > myArgs.zin \/ zo < 0 \/ myArgs.zin > 22

C15_PreflightAbort ==
    (MissingToken \/ InvalidZoomRange) =>
        /\ pc \in {"main", "exit1"}
        /\ jobs = << >>
        /\ httpCalls = << >>
        /\ tiles = << >>
        /\ totalTiles = 0
        /\ pc = "main" => ENABLED fn_handle_arguments
        /\ pc = "exit1" => ~(ENABLED Next)

\* The run has stopped with exit code 1 for a Mapbox provider without token.
C15_Witness ==
    /\ pc = "exit1"
    /\ MissingToken
    /\ ~InvalidZoomRange
    /\ jobs = << >> /\ httpCalls = << >>

(***************************************************************************)
(* C16.  The run always completes: when every fetch attempt terminates     *)
(* and every backoff delay elapses, a run that has passed the validation   *)
(* of its arguments reaches "Download complete!" whatever tiles fail,      *)
(* with an outcome for every enumerated tile, and never takes the error    *)
(* exit.                                                                   *)
(***************************************************************************)
AllTilesHaveOutcome ==
    /\ Len(jobs) = EnumeratedTiles
    /\ \A k \in JobIds : HasOutcome(k)
    /\ \A z \in myArgs.zout .. myArgs.zin :
          \A t \in TilesOfZoom(z) : TileDone(t, z)

C16_RunCompletes ==
    /\ (pc = "total") ~> (pc = "complete" /\ AllTilesHaveOutcome)
    /\ [](pc = "exit1" => (jobs = << >> /\ totalTiles = 0))
    /\ []((pc = "complete") => ~(ENABLED Next))

\* The run is complete and every one of its tiles, five or more, failed.
C16_Witness ==
    /\ pc = "complete"
    /\ Len(jobs) >= 5
    /\ \A k \in JobIds : jobs[k].outcome = "Failed"

(***************************************************************************)
(* Vocabulary of the properties of the two functions.                      *)
(***************************************************************************)
UrlCalls == {n \in 1 .. Len(fnCalls) : fnCalls[n].fn = "getTileUrlAndFilename"}
RangeCalls ==
    {n \in 1 .. Len(fnCalls) : fnCalls[n].fn = "fn_convertFromLngLatToPoints"}

StartsWith(str, prefix) ==
    Len(str) >= Len(prefix) /\ SubSeq(str, 1, Len(prefix)) = prefix

EndsWith(str, suffix) ==
    /\ Len(str) >= Len(suffix)
    /\ SubSeq(str, Len(str) - Len(suffix) + 1, Len(str)) = suffix

Contains(str, part) ==
    \E n \in 1 .. (Len(str) - Len(part) + 1) :
        SubSeq(str, n, n + Len(part) - 1) = part

(***************************************************************************)
(* C17.  Filenames are collision-free: two tiles that differ in provider,  *)
(* x, y or z (non-negative integers, provider OSM, MapboxSatellite or      *)
(* MapboxTerrainRGB) get different filenames from getTileUrlAndFilename.   *)
(***************************************************************************)
C17_FilenamesCollisionFree ==
    \A a, b \in UrlCalls :
        << fnCalls[a].provider, fnCalls[a].i, fnCalls[a].j, fnCalls[a].zoom >>
            # << fnCalls[b].provider, fnCalls[b].i, fnCalls[b].j, fnCalls[b].zoom >>
        => fnCalls[a].result.filename # fnCalls[b].result.filename

\* Two tiles of one provider whose decimal digits are the same in a row:
\* (1, 11, 1) and (11, 1, 1).
C17_Witness ==
    /\ Len(fnCalls) = 2
    /\ UrlCalls = {1, 2}
    /\ fnCalls[1].provider = fnCalls[2].provider
    /\ << fnCalls[1].i, fnCalls[1].j, fnCalls[1].zoom >> = << 1, 11, 1 >>
    /\ << fnCalls[2].i, fnCalls[2].j, fnCalls[2].zoom >> = << 11, 1, 1 >>
    /\ fnCalls[1].result.filename # fnCalls[2].result.filename

(***************************************************************************)
(* C18.  Provider resolution follows the table: isMapboxSatellite is true  *)
(* if and only if the provider is MapboxSatellite, the filename prefix is  *)
(* osm, sat or terrain for OSM, MapboxSatellite or MapboxTerrainRGB, and   *)
(* the URL carries the configured access token if and only if the          *)
(* provider is one of the two Mapbox kinds.                                *)
(***************************************************************************)
C18_ProviderTable ==
    \A n \in UrlCalls :
        LET c == fnCalls[n]
            r == c.result
        IN  /\ r.isMapboxSatellite <=> (c.provider = 1)
            /\ c.provider = 0 => StartsWith(r.filename, "osm_")
            /\ c.provider = 1 => StartsWith(r.filename, "sat_")
            /\ c.provider = 2 => StartsWith(r.filename, "terrain_")
            /\ EndsWith(r.filename, ".png")
            /\ c.provider \in {1, 2} =>
                  /\ StartsWith(r.url, "https://api.mapbox.com/")
                  /\ EndsWith(r.url, "access_token=" \o c.token)
            /\ c.provider = 0 =>
                  /\ StartsWith(r.url, "https://tile.openstreetmap.org/")
                  /\ ~Contains(r.url, c.token)
                  /\ ~Contains(r.url, "access_token")
            /\ n = Len(fnCalls) => (c.token = TOKEN /\ c.provider = map_provider)

\* A MapboxTerrainRGB tile and a MapboxSatellite tile were resolved, under
\* two different tokens.
C18_Witness ==
    /\ Len(fnCalls) = 2
    /\ UrlCalls = {1, 2}
    /\ fnCalls[1].provider = 2 /\ ~fnCalls[1].result.isMapboxSatellite
    /\ fnCalls[2].provider = 1 /\ fnCalls[2].result.isMapboxSatellite
    /\ fnCalls[1].token # fnCalls[2].token
    /\ Contains(fnCalls[1].result.url, fnCalls[1].token)

(***************************************************************************)
(* C19.  Order independence: for the two opposite corners of a rectangle   *)
(* in either argument order (lat1 and lat2 swapped, lng1 and lng2          *)
(* swapped, or both) and for every zoom, fn_convertFromLngLatToPoints      *)
(* returns the same tile range.                                            *)
(***************************************************************************)
SameRectangle(a, b) ==
    /\ {a.lat1, a.lat2} = {b.lat1, b.lat2}
    /\ {a.lng1, a.lng2} = {b.lng1, b.lng2}
    /\ a.zoom = b.zoom

C19_OrderIndependence ==
    \A a, b \in RangeCalls :
        SameRectangle(fnCalls[a], fnCalls[b]) =>
            fnCalls[a].result = fnCalls[b].result

\* Both corners swapped in both coordinates, on a range of several tiles.
C19_Witness ==
    /\ Len(fnCalls) = 2
    /\ RangeCalls = {1, 2}
    /\ fnCalls[1].lat1 < fnCalls[1].lat2 /\ fnCalls[1].lng1 < fnCalls[1].lng2
    /\ fnCalls[2].lat1 = fnCalls[1].lat2 /\ fnCalls[2].lat2 = fnCalls[1].lat1
    /\ fnCalls[2].lng1 = fnCalls[1].lng2 /\ fnCalls[2].lng2 = fnCalls[1].lng1
    /\ fnCalls[1].result[1].x < fnCalls[1].result[2].x
    /\ fnCalls[1].result[1].y < fnCalls[1].result[2].y
    /\ fnCalls[2].result = fnCalls[1].result

(***************************************************************************)
(* C20.  Tile indices stay inside the grid: for every bounding box with    *)
(* latitudes in [-90, 90] and longitudes in [-180, 180] and every zoom z   *)
(* in [0, 22], every tile (x, y) enumerated for download has               *)
(* 0 <= x <= 2^z - 1 and 0 <= y <= 2^z - 1.                                *)
(***************************************************************************)
InGrid(i, j, z) ==
    /\ 0 <= i /\ i <= Pow2(z) - 1
    /\ 0 <= j /\ j <= Pow2(z) - 1

C20_TilesInsideGrid ==
    /\ pc \in {"batchloop", "await"} =>
          \A n \in 1 .. Len(tiles) : InGrid(tiles[n].i, tiles[n].j, zoom)
    /\ \A k \in JobIds : InGrid(jobs[k].i, jobs[k].j, jobs[k].zoom)

(***************************************************************************)
(* C21.  The returned tile range is ordered on both axes: for every pair   *)
(* of input corners and every zoom, fn_convertFromLngLatToPoints returns   *)
(* [min, max] with min.x <= max.x and min.y <= max.y, so the enumerated    *)
(* rectangle is never empty.                                               *)
(***************************************************************************)
C21_RangeOrdered ==
    \A n \in RangeCalls :
        LET r == fnCalls[n].result
        IN  /\ r[1].x <= r[2].x
            /\ r[1].y <= r[2].y

\* The corners were given north-east first, and the range has several rows
\* and several columns.
C21_Witness ==
    \E n \in RangeCalls :
        /\ fnCalls[n].lat1 > fnCalls[n].lat2
        /\ fnCalls[n].lng1 > fnCalls[n].lng2
        /\ fnCalls[n].result[1].x < fnCalls[n].result[2].x
        /\ fnCalls[n].result[1].y < fnCalls[n].result[2].y

(***************************************************************************)
(* C22.  End to end: in a run where no destination file exists beforehand  *)
(* and every fetch succeeds on its first attempt, exactly one HTTP request *)
(* is issued per enumerated tile, and the files written are exactly one    *)
(* file {prefix}_{x}_{y}_{z}.png per tile of the computed range of every   *)
(* zoom level zout..zin, and no other file.                                *)
(***************************************************************************)
\* No request and no conversion of the run has failed so far.
NoFailureSoFar ==
    \A k \in JobIds :
        jobs[k].error = "none" /\ jobs[k].delays = << >> /\ jobs[k].convFailedAt = 0

\* The filenames of the tiles of the run, once the run has passed the
\* validation of its arguments.
ExpectedFiles ==
    IF pc \in {"main", "exit1"} THEN {}
    ELSE
    UNION { { TypePrefix(map_provider) \o "_" \o ToString(t.i) \o "_"
                \o ToString(t.j) \o "_" \o ToString(z) \o ".png" :
              t \in TilesOfZoom(z) } : z \in myArgs.zout .. myArgs.zin }

\* No file of a tile of the run was in the folder when the run started.
NoFileBeforehand ==
    /\ \A k \in JobIds : ~jobs[k].existed
    /\ \A f \in DOMAIN files : files[f] = "old" => f \notin ExpectedFiles

FilesWritten == {f \in DOMAIN files : files[f] = "new"}

RECURSIVE TotalCalls(_)
TotalCalls(urls) ==
    IF urls = {} THEN 0
    ELSE LET u == CHOOSE x \in urls : TRUE
         IN  httpCalls[u] + TotalCalls(urls \ {u})

C22_EndToEnd ==
    (NoFailureSoFar /\ NoFileBeforehand) =>
        /\ \A k \in JobIds : Requests(k) = 1
        /\ TotalCalls(DOMAIN httpCalls) = Len(jobs)
        /\ \A f \in FilesWritten : f \in ExpectedFiles
        /\ pc = "complete" =>
              /\ FilesWritten = ExpectedFiles
              /\ TotalCalls(DOMAIN httpCalls) = EnumeratedTiles
              /\ Cardinality(FilesWritten) = EnumeratedTiles

\* The run over the zoom levels 0 and 1 is complete: five tiles, five
\* requests, five files.
C22_Witness ==
    /\ pc = "complete"
    /\ NoFailureSoFar /\ NoFileBeforehand
    /\ myArgs.zout = 0 /\ myArgs.zin = 1
    /\ Len(jobs) = 5
    /\ Cardinality(FilesWritten) = 5

(***************************************************************************)
(* C24.  Batches partition the job list: the jobs of a zoom level are      *)
(* split, in enumeration order (x outer, y inner), into consecutive        *)
(* batches such that every job belongs to exactly one batch, every batch   *)
(* except possibly the last has exactly C jobs, and the last has between   *)
(* 1 and C jobs.                                                           *)
(***************************************************************************)
JobsOfZoom(z) == SelectSeq(jobs, LAMBDA job : job.zoom = z)

\* Zoom level z has been dispatched to its end.
LevelDispatched(z) ==
    \/ pc = "complete"
    \/ pc \in {"zoomloop", "batchloop", "await"} /\ zoom > z
    \/ pc = "batchloop" /\ zoom = z /\ batchStart >= Len(tiles)

BatchSize(js, b) == Cardinality({n \in 1 .. Len(js) : js[n].batch = b})

C24_BatchesPartition ==
    \A z \in 0 .. MaxZoom + 1 :
        LET js == JobsOfZoom(z)
            C == ConfiguredCeiling
            starts == {js[n].batch : n \in 1 .. Len(js)}
            last == CHOOSE b \in starts : \A c \in starts : c <= b
        IN  /\ \A n, m \in 1 .. Len(js) :
                  n < m => \/ js[n].i < js[m].i
                           \/ js[n].i = js[m].i /\ js[n].j < js[m].j
            /\ \A n, m \in 1 .. Len(js) : n < m => js[n].batch <= js[m].batch
            /\ {[i |-> js[n].i, j |-> js[n].j] : n \in 1 .. Len(js)}
                  \subseteq TilesOfZoom(z)
            /\ \A b \in starts :
                  IF b # last THEN BatchSize(js, b) = C
                  ELSE BatchSize(js, b) \in 1 .. C
            /\ LevelDispatched(z) /\ z \in myArgs.zout .. myArgs.zin =>
                  Len(js) = Cardinality(TilesOfZoom(z))

\* Six tiles under the default ceiling of 5: a full batch and a last batch
\* of one job.
C24_Witness ==
    /\ pc = "complete"
    /\ ConfiguredCeiling = 5
    /\ \E z \in 0 .. MaxZoom + 1 :
          /\ Len(JobsOfZoom(z)) = 6
          /\ BatchSize(JobsOfZoom(z), 0) = 5
          /\ BatchSize(JobsOfZoom(z), 5) = 1

(***************************************************************************)
(* C25.  One padding policy at every call site: for every zoom level, the  *)
(* tile count that main adds to the total from the computed range,         *)
(* (max.x - min.x + 1) * (max.y - min.y + 1), equals the number of jobs    *)
(* fn_download_tiles_for_zoom enumerates for that same range.              *)
(***************************************************************************)
C25_OnePaddingPolicy ==
    /\ pc \in {"batchloop", "await"} => Len(tiles) = RangeCount(zoom)
    /\ \A z \in 0 .. MaxZoom + 1 :
          LevelDispatched(z) /\ z \in myArgs.zout .. myArgs.zin =>
              Len(JobsOfZoom(z)) = RangeCount(z)
    /\ pc = "zoomloop" /\ jobs = << >> => totalTiles = EnumeratedTiles

\* A level of four tiles has been enumerated, and main has counted four.
C25_Witness ==
    /\ pc = "await"
    /\ Len(tiles) = 4
    /\ RangeCount(zoom) = 4
    /\ batchStart = 2

(***************************************************************************)
(* C28.  At every reachable state of a run, processed <= total             *)
(* (downloadedTiles <= totalTiles), so no progress report exceeds 100%;    *)
(* and processed never decreases.                                          *)
(***************************************************************************)
C28_ProcessedWithinTotal ==
    /\ [](downloadedTiles <= totalTiles)
    /\ [][downloadedTiles' >= downloadedTiles]_vars

\* A tile has taken three attempts and has been counted once.
C28_Witness ==
    /\ pc = "complete"
    /\ downloadedTiles = 1
    /\ \E k \in JobIds : Requests(k) >= 3
    /\ downloadedTiles <= totalTiles

(***************************************************************************)
(* C29.  With force false, a file that exists in the output folder before  *)
(* the run is never written, replaced or removed by the run: its content   *)
(* at the end of the run equals its content at the start.                  *)
(***************************************************************************)
C29_OldFilesUntouched ==
    /\ [][~myArgs.force =>
             \A f \in DOMAIN files :
                 files[f] = "old" => f \in DOMAIN files' /\ files'[f] = "old"]_vars
    /\ [](~myArgs.force =>
             \A k \in JobIds :
                 jobs[k].existed =>
                     /\ jobs[k].filename \in DOMAIN files
                     /\ files[jobs[k].filename] = "old"
                     /\ Requests(k) = 0)

\* Both tiles of a two-level run were in the folder; the run is over, and
\* a third tile has been downloaded next to them.
C29_Witness ==
    /\ pc = "complete"
    /\ ~myArgs.force
    /\ \E k, l, m \in JobIds :
          /\ jobs[k].zoom # jobs[l].zoom
          /\ jobs[k].existed /\ files[jobs[k].filename] = "old"
          /\ jobs[l].existed /\ files[jobs[l].filename] = "old"
          /\ ~jobs[m].existed
          /\ jobs[m].outcome = "Success"
          /\ files[jobs[m].filename] = "new"

(***************************************************************************)
(* C30.  A tile whose fetch (or conversion) fails on every attempt leaves  *)
(* the output folder unchanged for that tile: no file is created for it,   *)
(* and under force=true a pre-existing file of that tile keeps its old     *)
(* content.                                                                *)
(***************************************************************************)
C30_FailedTileLeavesFolder ==
    \A k \in JobIds :
        jobs[k].outcome = "Failed" =>
            IF jobs[k].existed
            THEN /\ jobs[k].filename \in DOMAIN files
                 /\ files[jobs[k].filename] = "old"
            ELSE jobs[k].filename \notin DOMAIN files

\* Under force, a tile whose file was in the folder has failed for good,
\* once at least in the conversion, and the old file is still there; a
\* tile without a file has failed too.
C30_Witness ==
    /\ myArgs.force
    /\ \E k \in JobIds :
          /\ jobs[k].outcome = "Failed" /\ jobs[k].existed
          /\ files[jobs[k].filename] = "old"
    /\ \E k \in JobIds :
          /\ jobs[k].outcome = "Failed" /\ ~jobs[k].existed
          /\ jobs[k].filename \notin DOMAIN files

(***************************************************************************)
(* C26.  The legacy variants download images sequentially: over a whole    *)
(* run with several zoom levels at most one image download is in flight    *)
(* at any instant, and no download of zoom z+1 starts before every         *)
(* download of zoom z has finished.                                        *)
(***************************************************************************)
Downloading == {n \in 1 .. Len(chains) : chains[n].state \in {"axios", "pipe"}}

C26_LegacySequential ==
    /\ Cardinality(Downloading) <= 1
    /\ \A n, m \in 1 .. Len(chains) :
          (chains[n].zoom < chains[m].zoom /\ chains[m].url # "")
              => chains[n].state \in {"done", "rejected"}

(***************************************************************************)
(* C27.  In src/download2.js a failed tile download does not stop the      *)
(* run: when the download of one tile's image (terrain or satellite)       *)
(* fails, every remaining tile of that zoom level is still attempted.      *)
(***************************************************************************)
C27_FailureDoesNotStop ==
    variant = "download2" =>
        \A n \in 1 .. Len(chains) :
            chains[n].state \in {"done", "rejected"} =>
                chains[n].c >= Len(chains[n].tiles)

(***************************************************************************)
(* C23.  The progress tracker is purely observational: two runs with the   *)
(* same configuration, the same initial folder content and the same fetch  *)
(* results dispatch the same jobs in the same batches and reach the same   *)
(* outcomes whatever the values of the total and processed counters are;   *)
(* no scheduling decision reads a counter.  Stated on the step from a run  *)
(* to the run with other counters: every step of the program is enabled    *)
(* in both or in neither, and leads both to the same position of main,     *)
(* the same batch, the same jobs with the same states, attempts and        *)
(* outcomes, the same files and the same requests.                         *)
(***************************************************************************)
PcValues == {"main", "total", "zoomloop", "batchloop", "await", "complete", "exit1"}
JobStates == {"new", "axios", "sharp", "writeFile", "setTimeout", "done", "rejected"}

\* The action is possible in the first run exactly when it is in the second.
InBoth(A) == (ENABLED A) <=> (ENABLED A)'

\* The action has one result in the first run, and the same one result in
\* the second.
SameResult(A, Result) ==
    /\ ~ENABLED (A /\ ~Result)
    /\ (ENABLED (A /\ Result))'
    /\ ~(ENABLED (A /\ ~Result))'

\* The tiles of zoom level z in the order of their enumeration.
TilesInOrder(z) ==
    LET r == fn_convertFromLngLatToPoints(myArgs.lat1, myArgs.lng1,
                                          myArgs.lat2, myArgs.lng2, z)
    IN  TileList(r[1], r[2])

\* What a step makes of main's position, of the configuration and of the
\* list of tiles.
SameMain(A) ==
    \E p \in PcValues : (ENABLED (A /\ pc' = p)) /\
    \E z \in 0 .. MaxZoom + 2 : (ENABLED (A /\ zoom' = z)) /\
    \E b \in 0 .. Len(tiles) + ConfiguredCeiling : (ENABLED (A /\ batchStart' = b)) /\
    \E c \in 0 .. ConfiguredCeiling : (ENABLED (A /\ concurrency' = c)) /\
    \E tl \in {tiles} \cup {TilesInOrder(v) : v \in 0 .. MaxZoom + 1} :
        (ENABLED (A /\ tiles' = tl)) /\
    \E nj \in 0 .. ConfiguredCeiling : (ENABLED (A /\ Len(jobs') = Len(jobs) + nj)) /\
    \E f \in BOOLEAN : (ENABLED (A /\ myArgs'.force = f)) /\
    \E zo \in -2 .. MaxZoom + 1 : (ENABLED (A /\ myArgs'.zout = zo)) /\
    \E mp \in 0 .. 2 : (ENABLED (A /\ map_provider' = mp)) /\
    \E tk \in {"", myArgs.token} : (ENABLED (A /\ TOKEN' = tk)) /\
        SameResult(A, /\ pc' = p /\ zoom' = z /\ batchStart' = b
                      /\ concurrency' = c /\ tiles' = tl
                      /\ Len(jobs') = Len(jobs) + nj
                      /\ myArgs' = [myArgs EXCEPT !.force = f, !.zout = zo]
                      /\ map_provider' = mp /\ TOKEN' = tk)

\* What a step makes of job k: its tile, batch, state, attempt and outcome,
\* its file and its requests.
FileOf(job, folder) ==
    IF job.filename \in DOMAIN folder THEN folder[job.filename] ELSE "absent"

RequestsOf(job, calls) == IF job.url \in DOMAIN calls THEN calls[job.url] ELSE 0

SameJob(A, k) ==
    \E st \in JobStates : (ENABLED (A /\ jobs'[k].state = st)) /\
    \E o \in Outcomes \cup {"none"} : (ENABLED (A /\ jobs'[k].outcome = o)) /\
    \E n \in 0 .. MaxRetries + 2 : (ENABLED (A /\ jobs'[k].attempt = n)) /\
    \E r \in 0 .. MaxRetries + 2 :
        (ENABLED (A /\ RequestsOf(jobs'[k], httpCalls') = r)) /\
    \E c \in {"absent", "old", "new"} :
        (ENABLED (A /\ FileOf(jobs'[k], files') = c)) /\
    \E b \in 0 .. Len(tiles) : (ENABLED (A /\ jobs'[k].batch = b)) /\
    \E t \in TilesOfZoom(zoom) :
        (ENABLED (A /\ jobs'[k].i = t.i /\ jobs'[k].j = t.j)) /\
        SameResult(A, /\ jobs'[k].state = st /\ jobs'[k].outcome = o
                      /\ jobs'[k].attempt = n
                      /\ RequestsOf(jobs'[k], httpCalls') = r
                      /\ FileOf(jobs'[k], files') = c
                      /\ jobs'[k].batch = b /\ jobs'[k].zoom = zoom
                      /\ jobs'[k].i = t.i /\ jobs'[k].j = t.j)

\* A step leaves every job but those of K, and every file but theirs, as
\* they are.
SameFrame(A, K) ==
    SameResult(A, /\ \A l \in JobIds \ K : jobs'[l] = jobs[l]
                  /\ \A f \in DOMAIN files :
                        (\A l \in K : l \in JobIds => jobs[l].filename # f)
                            => f \in DOMAIN files' /\ files'[f] = files[f])

\* A step of main: it may dispatch the jobs of the next batch.
SameMainStep(A) ==
    /\ InBoth(A)
    /\ (ENABLED A) =>
          /\ SameMain(A)
          /\ SameFrame(A, {})
          /\ \A k \in Len(jobs) + 1 .. Len(jobs) + ConfiguredCeiling :
                (ENABLED (A /\ k <= Len(jobs'))) => SameJob(A, k)

\* An event of job k.
SameJobStep(A, k) ==
    /\ InBoth(A)
    /\ (ENABLED A) =>
          /\ \E p \in PcValues : (ENABLED (A /\ pc' = p)) /\
                SameResult(A, /\ pc' = p /\ Len(jobs') = Len(jobs)
                              /\ UNCHANGED << myArgs, map_provider, TOKEN, zoom,
                                              tiles, batchStart, concurrency >>)
          /\ SameFrame(A, {k})
          /\ SameJob(A, k)

SameDecisions ==
    /\ SameMainStep(fn_handle_arguments)
    /\ SameMainStep(CountTotalTiles)
    /\ SameMainStep(ZoomLoop)
    /\ SameMainStep(BatchLoop)
    /\ SameMainStep(AwaitBatch)
    /\ \A k \in JobIds :
          /\ SameJobStep(AxiosResolve(k), k)
          /\ SameJobStep(AxiosReject(k), k)
          /\ SameJobStep(SharpResolve(k), k)
          /\ SameJobStep(SharpReject(k), k)
          /\ SameJobStep(WriteFileResolve(k), k)
          /\ SameJobStep(TimerFires(k), k)

C23_Observational ==
    [][(FirstRun /\ ~FirstRun') =>
          /\ UNCHANGED << myArgs, map_provider, TOKEN, pc, zoom, tiles,
                          batchStart, concurrency, jobs, files, httpCalls >>
          /\ SameDecisions]_vars

\* The second run stands in the middle of a second batch, with counters
\* that say 7 of 0, while the first run has counted 2 of 8.
C23_Witness ==
    /\ ~FirstRun
    /\ fnCalls[1].totalTiles = 8 /\ fnCalls[1].downloadedTiles = 2
    /\ totalTiles = 0 /\ downloadedTiles = 7
    /\ pc = "await" /\ batchStart = 2
    /\ Cardinality(InFlight) = 2

(***************************************************************************)
(* C31.  Each tile coordinate (x, y, z) is dispatched as a job exactly     *)
(* once per run: no two jobs have the same coordinate, and once a zoom     *)
(* level has been dispatched to its end every tile of its range has one    *)
(* job.  No two jobs that are in flight at the same time have the same     *)
(* destination path, and no job of a batch has the path of a job of that   *)
(* batch that is in flight, so the exists-check and the write of a job     *)
(* never meet the write of another job.                                    *)
(***************************************************************************)
Coordinate(job) == << job.i, job.j, job.zoom >>

SameBatch(k, m) == jobs[k].zoom = jobs[m].zoom /\ jobs[k].batch = jobs[m].batch

C31_DispatchedOnce ==
    /\ \A k, m \in JobIds :
          k # m => Coordinate(jobs[k]) # Coordinate(jobs[m])
    /\ \A k \in InFlight, m \in JobIds :
          (k # m /\ (m \in InFlight \/ SameBatch(k, m))) =>
             jobs[k].filename # jobs[m].filename
    /\ \A z \in 0 .. MaxZoom + 1 :
          (LevelDispatched(z) /\ z \in myArgs.zout .. myArgs.zin) =>
             \A t \in TilesOfZoom(z) :
                Cardinality({k \in JobIds :
                               Coordinate(jobs[k]) = << t.i, t.j, z >>}) = 1

\* Two jobs of one batch are both about to write their files, after an
\* earlier zoom level has been dispatched to its end.
C31_Witness ==
    /\ \E k, m \in InFlight :
          /\ k # m
          /\ jobs[k].state = "writeFile" /\ jobs[m].state = "writeFile"
          /\ SameBatch(k, m)
    /\ \E k \in JobIds : jobs[k].zoom < zoom /\ LevelDispatched(jobs[k].zoom)

(***************************************************************************)
(* C32.  Success implies the file is on disk before the tile is counted:   *)
(* a job is reported as "Downloaded" (outcome Success) only in the step    *)
(* in which its writeFile completes, that step leaves the whole tile in    *)
(* its destination file and increments the processed counter for it, and   *)
(* the file of every tile so reported is there and complete from then on.  *)
(***************************************************************************)
Written(job) ==
    job.filename \in DOMAIN files /\ files[job.filename] = "new"

\* A step in which a job comes to be reported as downloaded.
C32_Step ==
    /\ \A k \in JobIds :
          (jobs[k].outcome # "Success" /\ jobs'[k].outcome = "Success") =>
             /\ jobs[k].state = "writeFile"
             /\ jobs[k].filename \in DOMAIN files'
             /\ files'[jobs[k].filename] = "new"
             /\ downloadedTiles' = downloadedTiles + 1
    /\ \A k \in (1 .. Len(jobs')) \ JobIds : jobs'[k].outcome # "Success"

C32_WrittenBeforeCounted ==
    /\ [](\A k \in JobIds : jobs[k].outcome = "Success" => Written(jobs[k]))
    /\ [][C32_Step]_vars

\* A tile is reported as downloaded on its second attempt, its file
\* complete, while a tile whose writes all failed has ended as Failed and
\* left a file that is not the whole tile.
C32_Witness ==
    \E k, m \in JobIds :
        /\ jobs[k].outcome = "Success" /\ jobs[k].attempt = 2
        /\ ~jobs[k].existed
        /\ Written(jobs[k])
        /\ downloadedTiles >= 2
        /\ jobs[m].outcome = "Failed" /\ jobs[m].error = "FilesystemError"
        /\ jobs[m].filename \in DOMAIN files
        /\ files[jobs[m].filename] = "partial"

(***************************************************************************)
(* C33.  The exact floored range covers the bounding box: for every zoom   *)
(* and every geographic point inside the normalized bounding box, the      *)
(* tile that contains the point, computed by the same project, transform   *)
(* and floor steps, lies inside the range that                             *)
(* fn_convertFromLngLatToPoints returns for the box.                       *)
(***************************************************************************)
InBox(lat, lng, c) ==
    /\ Min2(c.lat1, c.lat2) <= lat /\ lat <= Max2(c.lat1, c.lat2)
    /\ Min2(c.lng1, c.lng2) <= lng /\ lng <= Max2(c.lng1, c.lng2)

InRange(x, y, r) ==
    /\ r[1].x <= x /\ x <= r[2].x
    /\ r[1].y <= y /\ y <= r[2].y

C33_RangeCoversBox ==
    \A n \in RangeCalls :
        LET c == fnCalls[n]
        IN  \A lat \in LatSamples, lng \in LngSamples :
                InBox(lat, lng, c) =>
                   InRange(TileX(lng, c.zoom), TileY(lat, c.zoom), c.result)

\* A box given by its south-east and north-west corners, with a point
\* strictly inside it whose tile is none of the tiles of the corners.
C33_Witness ==
    \E n \in RangeCalls :
        LET c == fnCalls[n]
            r == c.result
        IN  /\ c.lat1 < c.lat2 /\ c.lng1 > c.lng2
            /\ \E lat \in LatSamples, lng \in LngSamples :
                  /\ c.lat1 < lat /\ lat < c.lat2
                  /\ c.lng2 < lng /\ lng < c.lng1
                  /\ r[1].x < TileX(lng, c.zoom) /\ TileX(lng, c.zoom) < r[2].x
                  /\ r[1].y < TileY(lat, c.zoom) /\ TileY(lat, c.zoom) < r[2].y

====
